---- MODULE Spec2Model ----
(***************************************************************************)
(* Model of the ISO 7816 exchange engine (class Iso7816), the command APDU *)
(* encoder (class CommandApdu) and the response APDU parser (class         *)
(* ResponseApdu) of tomkp/iso7816, TypeScript variant.                     *)
(*                                                                         *)
(* One logical operation is modelled: a caller invokes issueCommand or one *)
(* of the high-level operations, the engine hands the command's buffer to  *)
(* card.transmit, and the continuation of `await transmit` runs when the   *)
(* transport resolves or rejects.                                          *)
(***************************************************************************)
EXTENDS Integers, Sequences, FiniteSets, TLC

(***************************************************************************)
(* Bounds of the model.                                                    *)
(***************************************************************************)
\* History is recorded exactly for operations of fewer than MaxCalls
\* transport calls; the counters saturate at MaxCalls.
MaxCalls == 6
\* issueCommand is called with maxRetries omitted or in 0..MaxRetriesArg.
MaxRetriesArg == 3
\* Of two operations that run concurrently, each makes at most MaxOpCalls
\* transport calls: after that many the card answers with a final status.
MaxOpCalls == 3

(***************************************************************************)
(* Program constants.                                                      *)
(***************************************************************************)
DefaultMaxRetries == 3
DefaultP1 == 4
DefaultP2 == 0
DefaultLe == 0
MinResponseLength == 2
SELECT_FILE == 164
GET_RESPONSE == 192
READ_RECORD == 178
GET_DATA == 202

\* Optional arguments and options: Absent is `undefined`, Given(v) is v.
Absent == <<>>
Given(v) == <<v>>
ValueOf(opt) == opt[1]
\* The value of parseInt on a string without a leading hex digit.
NaN == -1

Min(a, b) == IF a < b THEN a ELSE b

(***************************************************************************)
(* Buffer and string primitives, as Node.js and ECMAScript compute them.   *)
(***************************************************************************)
HexDigits == <<"0", "1", "2", "3", "4", "5", "6", "7",
               "8", "9", "a", "b", "c", "d", "e", "f">>

\* Buffer.from(array): every element is stored modulo 256.
BufferFrom(arr) == [i \in 1..Len(arr) |-> arr[i] % 256]

\* buffer.toString('hex'): two lowercase hex characters per byte.
BufferToHex(buf) ==
    [k \in 1..(2 * Len(buf)) |->
        LET byte == buf[(k + 1) \div 2]
        IN  IF k % 2 = 1 THEN HexDigits[(byte \div 16) + 1]
                         ELSE HexDigits[(byte % 16) + 1]]

\* The index String.prototype.slice derives from a relative position.
SliceIndex(len, k) == IF k < 0 THEN (IF len + k < 0 THEN 0 ELSE len + k)
                      ELSE Min(k, len)

\* str.slice(from, to), 0-based, `to` exclusive.
StrSlice(str, from, to) ==
    LET a == SliceIndex(Len(str), from)
        b == SliceIndex(Len(str), to)
    IN  IF a >= b THEN <<>> ELSE SubSeq(str, a + 1, b)

\* str.slice(from)
StrSliceFrom(str, from) == StrSlice(str, from, Len(str))

HexValue(ch) == (CHOOSE i \in 1..16 : HexDigits[i] = ch) - 1

\* parseInt(str, 16) of a string of hex digits.
RECURSIVE ParseHexAcc(_, _)
ParseHexAcc(str, acc) ==
    IF str = <<>> THEN acc
    ELSE ParseHexAcc(Tail(str), acc * 16 + HexValue(str[1]))

parseInt16(str) == IF str = <<>> THEN NaN ELSE ParseHexAcc(str, 0)

(***************************************************************************)
(* CommandApdu (command-apdu.ts).  A command is its _bytes array.          *)
(***************************************************************************)
\* constructor: [cla, ins, p1, p2], then [lc] + data when data is given
\* (an empty array is given data), then le (0 when omitted).  The `size`
\* the constructor computes is a local that nothing reads.
createCommandApduCase1Bare(options) ==
    LET header == <<options.cla, options.ins, options.p1, options.p2>>
        body == IF options.data # Absent
                THEN <<Len(ValueOf(options.data))>> \o ValueOf(options.data)
                ELSE <<>>
    IN  IF options.data = Absent /\ options.le = Absent
        THEN header
        ELSE header \o body
             \o <<IF options.le = Absent THEN DefaultLe ELSE ValueOf(options.le)>>

createCommandApduEmptyDataSkipped(options) ==
    LET le == IF options.le = Absent THEN DefaultLe ELSE ValueOf(options.le)
        header == <<options.cla, options.ins, options.p1, options.p2>>
        body == IF options.data # Absent /\ ValueOf(options.data) # <<>>
                THEN <<Len(ValueOf(options.data))>> \o ValueOf(options.data)
                ELSE <<>>
    IN  header \o body \o <<le>>

createCommandApdu(options) ==
    LET le == IF options.le = Absent THEN DefaultLe ELSE ValueOf(options.le)
        header == <<options.cla, options.ins, options.p1, options.p2>>
        body == IF options.data # Absent
                THEN <<Len(ValueOf(options.data))>> \o ValueOf(options.data)
                ELSE <<>>
    IN  header \o body \o <<le>>

toBuffer(bytes) == BufferFrom(bytes)

\* Array.prototype.pop on the _bytes array.
Pop(bytes) == IF bytes = <<>> THEN <<>> ELSE SubSeq(bytes, 1, Len(bytes) - 1)

setLeNoPop(bytes, le) == Append(bytes, le)

setLeShift(bytes, le) == Append(Tail(bytes), le)

setLe(bytes, le) == Append(Pop(bytes), le)

\* What a member hands to the caller: the value, and whether it is the
\* _bytes array itself rather than a new object.
bytesGetterShared(bytes) == [value |-> bytes, shared |-> TRUE]

\* get bytes(): `[...this._bytes]`
bytesGetter(bytes) == [value |-> bytes, shared |-> FALSE]

\* toByteArray(): `return this._bytes`
toByteArray(bytes) == [value |-> bytes, shared |-> TRUE]

\* toBuffer(): Buffer.from allocates a new buffer.
toBufferResult(bytes) == [value |-> toBuffer(bytes), shared |-> FALSE]

\* toString(): hexify.toHexString(this._bytes), two hex digits per byte.
commandToString(bytes) ==
    [value |-> BufferToHex(BufferFrom(bytes)), shared |-> FALSE]

(***************************************************************************)
(* ResponseApdu (response-apdu.ts).  A response is its _data hex string;   *)
(* the constructor throws on a buffer of fewer than 2 bytes.               *)
(***************************************************************************)
AcceptsAnyLength(buffer) == TRUE

AcceptsOneByte(buffer) == Len(buffer) >= 1

\* constructor guard: `buffer.length < 2` throws.
ResponseApduAccepts(buffer) == Len(buffer) >= MinResponseLength

getSW1FromStart(data) == StrSlice(data, 0, 2)

getSW1(data) == StrSlice(data, -4, -2)

getSW2(data) == StrSliceFrom(data, -2)

getStatusCodeFromStart(data) == StrSlice(data, 0, 4)

getStatusCode(data) == StrSliceFrom(data, -4)

isOk(data) == getStatusCode(data) = <<"9", "0", "0", "0">>

hasMoreBytesAvailable(data) == getSW1(data) = <<"6", "1">>

\* parseInt(str, 10) of a string of two hex digits.
parseInt10(str) ==
    IF HexValue(str[1]) > 9 THEN NaN
    ELSE IF HexValue(str[2]) > 9 THEN HexValue(str[1])
    ELSE 10 * HexValue(str[1]) + HexValue(str[2])

numberOfBytesAvailableRadix10(data) == parseInt10(getSW2(data))

numberOfBytesAvailable(data) == parseInt16(getSW2(data))

isWrongLengthUpperCase(data) == getSW1(data) = <<"6", "C">>

isWrongLength(data) == getSW1(data) = <<"6", "c">>

correctLength(data) == parseInt16(getSW2(data))

\* One [RegExp, string] pair of the statusCodes table.  A pattern is
\* /^hhhh$/ or /^hh(.{2})$/: four positions, "." for any character.
Entry(pattern, meaning) == [pattern |-> pattern, meaning |-> meaning]

\* pattern.test(str)
PatternTest(pattern, str) ==
    /\ Len(str) = Len(pattern)
    /\ \A i \in 1..Len(pattern) : pattern[i] = "." \/ pattern[i] = str[i]

\* "Specific status codes first"
SpecificStatusCodes ==
    <<
       Entry(<<"9", "0", "0", "0">>, "Normal processing"),
       Entry(<<"6", "2", "0", "0">>, "No information given"),
       Entry(<<"6", "2", "8", "1">>, "Part of return data may be corrupted"),
       Entry(<<"6", "2", "8", "2">>, "End of file/record reached before reading Le bytes"),
       Entry(<<"6", "2", "8", "3">>, "Selected file invalidated"),
       Entry(<<"6", "2", "8", "4">>, "FCI not formatted correctly"),
       Entry(<<"6", "2", "8", "5">>, "File control info not in required format"),
       Entry(<<"6", "2", "8", "6">>, "Unsuccessful writing"),
       Entry(<<"6", "3", "0", "0">>, "Authentication failed"),
       Entry(<<"6", "3", "8", "1">>, "Last write filled up file"),
       Entry(<<"6", "3", "8", "2">>, "Execution successful after retry"),
       Entry(<<"6", "5", "0", "0">>, "No information given"),
       Entry(<<"6", "5", "8", "1">>, "Memory failure"),
       Entry(<<"6", "7", "0", "0">>, "Wrong length"),
       Entry(<<"6", "8", "0", "0">>, "No information given"),
       Entry(<<"6", "8", "8", "1">>, "Logical channel not supported"),
       Entry(<<"6", "8", "8", "2">>, "Secure messaging not supported"),
       Entry(<<"6", "9", "8", "1">>, "Command incompatible with file structure"),
       Entry(<<"6", "9", "8", "2">>, "Security status not satisfied"),
       Entry(<<"6", "9", "8", "3">>, "Authentication method blocked"),
       Entry(<<"6", "9", "8", "4">>, "Referenced data invalidated"),
       Entry(<<"6", "9", "8", "5">>, "Conditions of use not satisfied"),
       Entry(<<"6", "9", "8", "6">>, "Command not allowed (no current EF)"),
       Entry(<<"6", "a", "8", "0">>, "Incorrect parameters in command data field"),
       Entry(<<"6", "a", "8", "1">>, "Function not supported"),
       Entry(<<"6", "a", "8", "2">>, "File not found"),
       Entry(<<"6", "a", "8", "3">>, "Record not found"),
       Entry(<<"6", "a", "8", "4">>, "Not enough memory space"),
       Entry(<<"6", "a", "8", "5">>, "Lc inconsistent with TLV structure"),
       Entry(<<"6", "a", "8", "6">>, "Incorrect parameters P1-P2"),
       Entry(<<"6", "a", "8", "7">>, "Lc inconsistent with P1-P2"),
       Entry(<<"6", "a", "8", "8">>, "Referenced data not found")
    >>

\* "Generic status codes (wildcards) last"
GenericStatusCodes ==
    <<
       Entry(<<"6", "1", ".", ".">>, "More data available"),
       Entry(<<"6", "2", ".", ".">>, "Warning processing"),
       Entry(<<"6", "3", ".", ".">>, "Warning processing"),
       Entry(<<"6", "4", ".", ".">>, "Execution error"),
       Entry(<<"6", "5", ".", ".">>, "Execution error"),
       Entry(<<"6", "6", ".", ".">>, "Reserved for future use"),
       Entry(<<"6", "8", ".", ".">>, "Functions in CLA not supported"),
       Entry(<<"6", "9", ".", ".">>, "Command not allowed"),
       Entry(<<"6", "a", ".", ".">>, "Wrong parameters P1-P2"),
       Entry(<<"6", "b", ".", ".">>, "Wrong parameters"),
       Entry(<<"6", "c", ".", ".">>, "Wrong length Le"),
       Entry(<<"6", "d", ".", ".">>, "Instruction not supported"),
       Entry(<<"6", "e", ".", ".">>, "Class not supported"),
       Entry(<<"6", "f", ".", ".">>, "No precise diagnosis")
    >>

statusCodesGenericFirst == GenericStatusCodes \o SpecificStatusCodes

statusCodes == SpecificStatusCodes \o GenericStatusCodes

\* The for loop of getStatus over the entries from position i on.
RECURSIVE FirstMeaning(_, _, _)
FirstMeaning(table, i, statusCode) ==
    IF i > Len(table) THEN "Unknown"
    ELSE IF PatternTest(table[i].pattern, statusCode) THEN table[i].meaning
    ELSE FirstMeaning(table, i + 1, statusCode)

getStatus(data) ==
    [code |-> getStatusCode(data),
     meaning |-> FirstMeaning(statusCodes, 1, getStatusCode(data))]

(***************************************************************************)
(* Inputs of the model.                                                    *)
(***************************************************************************)
\* File identifiers passed to selectFile.
FileIds == { <<160, 0, 0>>, <<49, 80, 65, 89>> }
\* p1 and p2 passed to selectFile.
SelectParams == { Absent, Given(0) }
\* Option objects of the commands handed to issueCommand directly.
RawOptions ==
    { [cla |-> 0, ins |-> 132, p1 |-> 0, p2 |-> 0,
       data |-> Absent, le |-> Given(8)],
      [cla |-> 128, ins |-> 202, p1 |-> 1, p2 |-> 2,
       data |-> Given(<<7, 9>>), le |-> Given(5)],
      [cla |-> 0, ins |-> 32, p1 |-> 0, p2 |-> 1,
       data |-> Given(<<>>), le |-> Absent] }
RetryArgs == { Absent } \cup { Given(n) : n \in 0..MaxRetriesArg }
ShortFileIds == { 1, 2 }
RecordNumbers == { 1 }
DataObjects == { <<159, 54>> }
ResponseLengths == { 0, 16 }
\* Buffers the transport may resolve with.
Replies ==
    { <<>>, <<97>>,
      <<97, 16>>, <<5, 97, 0>>,
      <<108, 16>>, <<9, 108, 32>>,
      <<144, 0>>, <<106, 130>>, <<97, 144, 0>>, <<1, 2, 3, 4, 144, 0>> }
\* Errors the transport may reject with.
TransportErrors == { "EIO", "ETIMEDOUT" }

(***************************************************************************)
(* Errors thrown by the engine and the parser.                             *)
(***************************************************************************)
NoError == "none"
MaxRetriesExceeded == "Maximum retries exceeded for wrong length response"
MalformedResponse == "Response APDU must contain at least 2 bytes (SW1 and SW2)"

(***************************************************************************)
(* State.                                                                  *)
(***************************************************************************)
VARIABLES
    pc,            \* "Idle", "Sending" (transmit outstanding), "Done", "Failed"
    bytes,         \* _bytes of the CommandApdu the running issueCommand holds
    cmdId,         \* identity of that CommandApdu instance (1 = the first)
    retries,       \* `retries` of the running issueCommand
    maxRetries,    \* `maxRetries` of the running issueCommand
    sent,          \* buffer handed to the outstanding / last transmit
    sentId,        \* instance that buffer was taken from
    prevSent,      \* buffer handed to the transmit before that
    prevSentId,    \* instance that buffer was taken from
    result,        \* buffer of the ResponseApdu the operation resolved with
    error,         \* error the operation rejected with
    opMaxRetries,  \* maxRetries in force for the call the caller made
    calls,         \* number of card.transmit calls
    setLeCalls,    \* number of setLe calls
    log,           \* kinds of the outcomes of the transmit calls, in order
    lastOutcome,   \* outcome of the latest transmit call that settled
    opCall,        \* the method the caller called and its arguments
    ownBuilt,      \* _bytes of the caller's CommandApdu when the call was made
    ownBytes,      \* _bytes of the caller's CommandApdu (instance 1) now
    ownCorrection  \* argument of the latest setLe on the caller's CommandApdu

\* A CommandApdu in the hands of a caller (command-apdu.ts).
VARIABLES
    cState,        \* "none" before `new CommandApdu`, then "built"
    cOptions,      \* the options object given to the constructor
    cData,         \* the caller's data array, as it is now
    cBytes,        \* _bytes of the CommandApdu
    cBuilt,        \* toBuffer() as it was when the constructor returned
    cLastLe,       \* argument of the latest setLe call
    cOp,           \* the latest operation on the command or by the caller
    cHeld,         \* the value the caller obtained last from the command
    cHeldFrom,     \* the member it was obtained from
    cHeldShared,   \* whether that value is the _bytes array itself
    cTampered      \* whether a caller's write reached the _bytes array

\* A ResponseApdu in the hands of a caller (response-apdu.ts).
VARIABLES
    rState,        \* "none" before `new ResponseApdu`, "parsed" or "threw"
    rBuffer,       \* the buffer given to the constructor
    rData,         \* _data, the hex string of the buffer
    rError,        \* the error the constructor threw
    rView          \* the accessor the caller called last and what it returned

\* Two logical operations running concurrently (iso7816-application.ts).
VARIABLES
    ops,           \* per operation: the closure of its issueCommand and its history
    heap,          \* _bytes of every CommandApdu instance the operations built
    retryCount     \* the `retries` variables of the issueCommand closures

engineVars == <<pc, bytes, cmdId, retries, maxRetries, sent, sentId, prevSent,
                prevSentId, result, error, opMaxRetries, calls, setLeCalls,
                log, lastOutcome, opCall, ownBuilt, ownBytes, ownCorrection>>

commandVars == <<cState, cOptions, cData, cBytes, cBuilt, cLastLe, cOp, cHeld,
                 cHeldFrom, cHeldShared, cTampered>>

responseVars == <<rState, rBuffer, rData, rError, rView>>

concurrentVars == <<ops, heap, retryCount>>

vars == <<engineVars, commandVars, responseVars, concurrentVars>>

\* What the transport did with a transmit call, and what the ISO 7816-4
\* status bytes of a reply say (SW1 is the second-to-last byte).
Resolved(buffer) == [ok |-> TRUE, bytes |-> buffer, err |-> NoError]
Rejected(e) == [ok |-> FALSE, bytes |-> <<>>, err |-> e]
OutcomeKind(outcome) ==
    IF ~outcome.ok THEN "REJECT"
    ELSE IF Len(outcome.bytes) < 2 THEN "SHORT"
    ELSE IF outcome.bytes[Len(outcome.bytes) - 1] = 97 THEN "CONT"
    ELSE IF outcome.bytes[Len(outcome.bytes) - 1] = 108 THEN "WL"
    ELSE "TERM"

\* A call of a method of Iso7816 by the caller.
Call(name, args) == [name |-> name, args |-> args]
NoCall == Call("none", <<>>)

NoOptions ==
    [cla |-> 0, ins |-> 0, p1 |-> 0, p2 |-> 0, data |-> Absent, le |-> Absent]

\* No CommandApdu has been constructed.
NoCommandYet ==
    /\ cState = "none"
    /\ cOptions = NoOptions
    /\ cData = Absent
    /\ cBytes = <<>>
    /\ cBuilt = <<>>
    /\ cLastLe = Absent
    /\ cOp = "none"
    /\ cHeld = <<>>
    /\ cHeldFrom = "none"
    /\ cHeldShared = FALSE
    /\ cTampered = FALSE

NoView == [member |-> "none", value |-> Absent]

\* No ResponseApdu has been constructed.
NoResponseYet ==
    /\ rState = "none"
    /\ rBuffer = <<>>
    /\ rData = <<>>
    /\ rError = NoError
    /\ rView = NoView

OpIds == {1, 2}
\* Identities of CommandApdu instances: the n-th command built for
\* operation op, and no instance.
NoInstance == <<0, 0>>
InstanceIds == { NoInstance } \cup (OpIds \X (1..(MaxOpCalls + 1)))
\* No operation has been started.
IdleOp ==
    [call |-> NoCall, engine |-> 0, pc |-> "Idle", cmd |-> NoInstance,
     built |-> 0, maxRetries |-> DefaultMaxRetries, sent |-> <<>>,
     replies |-> <<>>, result |-> <<>>, error |-> NoError]
NoOperationsYet ==
    /\ ops = [i \in OpIds |-> IdleOp]
    /\ heap = [id \in InstanceIds |-> <<>>]
    /\ retryCount = [i \in OpIds |-> 0]

Init ==
    /\ pc = "Idle"
    /\ bytes = <<>>
    /\ cmdId = 0
    /\ retries = 0
    /\ maxRetries = DefaultMaxRetries
    /\ sent = <<>>
    /\ sentId = 0
    /\ prevSent = <<>>
    /\ prevSentId = 0
    /\ result = <<>>
    /\ error = NoError
    /\ opMaxRetries = DefaultMaxRetries
    /\ calls = 0
    /\ setLeCalls = 0
    /\ log = <<>>
    /\ lastOutcome = Rejected(NoError)
    /\ opCall = NoCall
    /\ ownBuilt = <<>>
    /\ ownBytes = <<>>
    /\ ownCorrection = Absent
    /\ NoCommandYet
    /\ NoResponseYet
    /\ NoOperationsYet

Settle(outcome) ==
    /\ log' = (IF Len(log) < MaxCalls THEN Append(log, OutcomeKind(outcome))
               ELSE log)
    /\ lastOutcome' = outcome

(***************************************************************************)
(* Iso7816 (iso7816-application.ts).                                       *)
(***************************************************************************)
\* `maxRetries: number = 3`
EffectiveMaxRetries(arg) == IF arg = Absent THEN DefaultMaxRetries ELSE ValueOf(arg)

TransmitSpeculative(cmdBytes, id) ==
    /\ sent' = toBuffer(cmdBytes)
    /\ sentId' = id
    /\ prevSent' = sent
    /\ prevSentId' = sentId
    /\ calls' = Min(calls + 2, MaxCalls)
    /\ pc' = "Sending"

\* this._card.transmit(commandApdu.toBuffer())
Transmit(cmdBytes, id) ==
    /\ sent' = toBuffer(cmdBytes)
    /\ sentId' = id
    /\ prevSent' = sent
    /\ prevSentId' = sentId
    /\ calls' = Min(calls + 1, MaxCalls)
    /\ pc' = "Sending"

issueCommandKeepingRetries(cmdBytes, id, arg) ==
    /\ bytes' = cmdBytes
    /\ cmdId' = id
    /\ retries' = retries + 1
    /\ maxRetries' = EffectiveMaxRetries(arg)
    /\ Transmit(cmdBytes, id)

\* issueCommand up to its first await: `let retries = 0`, then execute().
issueCommand(cmdBytes, id, arg) ==
    /\ bytes' = cmdBytes
    /\ cmdId' = id
    /\ retries' = 0
    /\ maxRetries' = EffectiveMaxRetries(arg)
    /\ Transmit(cmdBytes, id)

selectFileCommandFalsyDefaults(fileId, p1, p2) ==
    createCommandApdu([cla |-> 0, ins |-> SELECT_FILE,
                       p1 |-> IF p1 = Absent \/ p1 = Given(0)
                              THEN DefaultP1 ELSE ValueOf(p1),
                       p2 |-> IF p2 = Absent \/ p2 = Given(0)
                              THEN DefaultP2 ELSE ValueOf(p2),
                       data |-> Given(fileId), le |-> Absent])

selectFileCommand(fileId, p1, p2) ==
    createCommandApdu([cla |-> 0, ins |-> SELECT_FILE,
                       p1 |-> IF p1 = Absent THEN DefaultP1 ELSE ValueOf(p1),
                       p2 |-> IF p2 = Absent THEN DefaultP2 ELSE ValueOf(p2),
                       data |-> Given(fileId), le |-> Absent])

getResponseCommandNoLe(length) ==
    createCommandApdu([cla |-> 0, ins |-> GET_RESPONSE, p1 |-> 0, p2 |-> 0,
                       data |-> Absent, le |-> Absent])

getResponseCommand(length) ==
    createCommandApdu([cla |-> 0, ins |-> GET_RESPONSE, p1 |-> 0, p2 |-> 0,
                       data |-> Absent, le |-> Given(length)])

readRecordCommandShiftedBy4(sfi, record) ==
    createCommandApdu([cla |-> 0, ins |-> READ_RECORD, p1 |-> record,
                       p2 |-> (sfi * 16) + 4, data |-> Absent, le |-> Given(0)])

\* (sfi << 3) + 4 on 32-bit integers; sfi is small here.
readRecordCommand(sfi, record) ==
    createCommandApdu([cla |-> 0, ins |-> READ_RECORD, p1 |-> record,
                       p2 |-> (sfi * 8) + 4, data |-> Absent, le |-> Given(0)])

getDataCommand(p1, p2) ==
    createCommandApdu([cla |-> 0, ins |-> GET_DATA, p1 |-> p1, p2 |-> p2,
                       data |-> Absent, le |-> Given(0)])

\* The caller starts the operation: every high-level operation builds a
\* command and calls issueCommand with maxRetries omitted.
Start(call, cmdBytes, arg) ==
    /\ pc = "Idle"
    /\ issueCommand(cmdBytes, 1, arg)
    /\ opMaxRetries' = EffectiveMaxRetries(arg)
    /\ opCall' = call
    /\ ownBuilt' = cmdBytes
    /\ ownBytes' = cmdBytes
    /\ ownCorrection' = Absent
    /\ UNCHANGED <<result, error, setLeCalls, log, lastOutcome>>
    /\ UNCHANGED <<commandVars, responseVars, concurrentVars>>

CallIssueCommand(options, arg) ==
    Start(Call("issueCommand", <<options, arg>>), createCommandApdu(options), arg)

CallSelectFile(fileId, p1, p2) ==
    Start(Call("selectFile", <<fileId, p1, p2>>),
          selectFileCommand(fileId, p1, p2), Absent)

CallGetResponse(length) ==
    Start(Call("getResponse", <<length>>), getResponseCommand(length), Absent)

CallReadRecord(sfi, record) ==
    Start(Call("readRecord", <<sfi, record>>), readRecordCommand(sfi, record),
          Absent)

CallGetData(p1, p2) ==
    Start(Call("getData", <<p1, p2>>), getDataCommand(p1, p2), Absent)

\* The operation's promise rejects with e.
Throw(e) ==
    /\ pc' = "Failed"
    /\ error' = e
    /\ UNCHANGED <<bytes, cmdId, retries, maxRetries, sent, sentId, prevSent,
                   prevSentId, result, opMaxRetries, calls, setLeCalls>>
    /\ UNCHANGED <<opCall, ownBuilt, ownBytes, ownCorrection>>

ReturnConcatenated(buffer) ==
    /\ pc' = "Done"
    /\ result' = lastOutcome.bytes \o buffer
    /\ UNCHANGED <<bytes, cmdId, retries, maxRetries, sent, sentId, prevSent,
                   prevSentId, error, opMaxRetries, calls, setLeCalls>>
    /\ UNCHANGED <<opCall, ownBuilt, ownBytes, ownCorrection>>

\* The operation's promise resolves with the response.
Return(buffer) ==
    /\ pc' = "Done"
    /\ result' = buffer
    /\ UNCHANGED <<bytes, cmdId, retries, maxRetries, sent, sentId, prevSent,
                   prevSentId, error, opMaxRetries, calls, setLeCalls>>
    /\ UNCHANGED <<opCall, ownBuilt, ownBytes, ownCorrection>>

RetriesExhaustedLate(r, m) == r > m

RetriesExhaustedEarly(r, m) == r + 1 >= m

\* `retries >= maxRetries`
RetriesExhausted(r, m) == r >= m

\* return this.getResponse(response.numberOfBytesAvailable())
FetchContinuation(data) ==
    /\ issueCommand(getResponseCommand(numberOfBytesAvailable(data)),
                    Min(cmdId + 1, MaxCalls), Absent)
    /\ UNCHANGED <<result, error, opMaxRetries, setLeCalls>>
    /\ UNCHANGED <<opCall, ownBuilt, ownBytes, ownCorrection>>

HoldsCallersCommandAlways(id) == TRUE

\* Whether the `commandApdu` of the running issueCommand is the object the
\* caller's call was made with, or a GET RESPONSE command built since.
HoldsCallersCommand(id) == id = 1

\* retries++; commandApdu.setLe(response.correctLength()); return execute()
RetryWithCorrectedLength(data) ==
    LET corrected == setLe(bytes, correctLength(data))
    IN  /\ retries' = retries + 1
        /\ bytes' = corrected
        /\ setLeCalls' = Min(setLeCalls + 1, MaxCalls)
        /\ Transmit(corrected, cmdId)
        /\ ownBytes' = (IF HoldsCallersCommand(cmdId) THEN corrected
                        ELSE ownBytes)
        /\ ownCorrection' = (IF HoldsCallersCommand(cmdId)
                             THEN Given(correctLength(data))
                             ELSE ownCorrection)
        /\ UNCHANGED <<cmdId, maxRetries, result, error, opMaxRetries, opCall,
                       ownBuilt>>

\* execute() after `await transmit` resolved with resp.
TransmitResolved(resp) ==
    /\ pc = "Sending"
    /\ Settle(Resolved(resp))
    /\ IF ~ResponseApduAccepts(resp)
       THEN Throw(MalformedResponse)
       ELSE LET data == BufferToHex(resp)
            IN  IF hasMoreBytesAvailable(data)
                THEN FetchContinuation(data)
                ELSE IF isWrongLength(data)
                THEN IF RetriesExhausted(retries, maxRetries)
                     THEN Throw(MaxRetriesExceeded)
                     ELSE RetryWithCorrectedLength(data)
                ELSE Return(resp)
    /\ UNCHANGED <<commandVars, responseVars, concurrentVars>>

TransmitRejectedResends(e) ==
    /\ pc = "Sending"
    /\ Settle(Rejected(e))
    /\ Transmit(bytes, cmdId)
    /\ UNCHANGED <<bytes, cmdId, retries, maxRetries, result, error,
                   opMaxRetries, setLeCalls>>
    /\ UNCHANGED <<opCall, ownBuilt, ownBytes, ownCorrection>>
    /\ UNCHANGED <<commandVars, responseVars, concurrentVars>>

TransmitRejectedAfterEnd(e) ==
    /\ pc \in {"Sending", "Done"}
    /\ Settle(Rejected(e))
    /\ Throw(e)
    /\ UNCHANGED <<commandVars, responseVars, concurrentVars>>

\* execute() after `await transmit` rejected with e: nothing catches it.
TransmitRejected(e) ==
    /\ pc = "Sending"
    /\ Settle(Rejected(e))
    /\ Throw(e)
    /\ UNCHANGED <<commandVars, responseVars, concurrentVars>>

Next ==
    \/ \E options \in RawOptions, arg \in RetryArgs : CallIssueCommand(options, arg)
    \/ \E fileId \in FileIds, p1 \in SelectParams, p2 \in SelectParams :
          CallSelectFile(fileId, p1, p2)
    \/ \E length \in ResponseLengths : CallGetResponse(length)
    \/ \E sfi \in ShortFileIds, record \in RecordNumbers : CallReadRecord(sfi, record)
    \/ \E obj \in DataObjects : CallGetData(obj[1], obj[2])
    \/ \E resp \in Replies : TransmitResolved(resp)
    \/ \E e \in TransportErrors : TransmitRejected(e)

Spec == Init /\ [][Next]_vars

\* The caller starts the operation and, as the transport contract assumes,
\* every outstanding transmit is eventually resolved or rejected.
FairSpec == Spec /\ WF_vars(Next)

TypeOK ==
    /\ pc \in {"Idle", "Sending", "Done", "Failed"}
    /\ retries \in 0..(MaxRetriesArg + DefaultMaxRetries)
    /\ calls \in 0..MaxCalls
    /\ setLeCalls \in 0..MaxCalls
    /\ Len(log) <= MaxCalls

(***************************************************************************)
(* The requests readRecord and selectFile transmit, over the whole range   *)
(* of their arguments, on a card that answers 9000 or 6C10.                *)
(***************************************************************************)
AllShortFileIds == 0..31
AllRecordNumbers == 0..255
SelectFileIds == FileIds \cup { <<>> }
SelectArguments == { Absent, Given(0), Given(4), Given(12), Given(255) }
RequestReplies == { <<144, 0>>, <<108, 16>> }

RequestNext ==
    \/ pc = "Idle" /\ \E sfi \in AllShortFileIds, record \in AllRecordNumbers :
                          CallReadRecord(sfi, record)
    \/ pc = "Idle" /\ \E fileId \in SelectFileIds,
                          p1 \in SelectArguments, p2 \in SelectArguments :
                          CallSelectFile(fileId, p1, p2)
    \/ \E resp \in RequestReplies : TransmitResolved(resp)

RequestSpec == Init /\ [][RequestNext]_vars

(***************************************************************************)
(* A caller constructs one ResponseApdu and calls its accessors.           *)
(***************************************************************************)
Bytes == 0..255
Payloads == { <<>>, <<97>>, <<108, 144, 0>> }
StatusByteSamples == { 0, 10, 16, 97, 108, 130, 144, 255 }
StatusWords ==
    (Bytes \X StatusByteSamples) \cup (StatusByteSamples \X Bytes)
\* Buffers given to the ResponseApdu constructor.
\* Every status word of the families 61xx..6fxx and 90xx.
FamilyStatusWords == ((97..111) \cup {144}) \X Bytes
ResponseBuffers ==
    { <<>>, <<0>>, <<97>>, <<108>>, <<144>> }
    \cup { payload \o sw : payload \in Payloads, sw \in StatusWords }
    \cup FamilyStatusWords

\* new ResponseApdu(buffer)
NewResponseApdu(buffer) ==
    /\ rState = "none"
    /\ rBuffer' = buffer
    /\ IF ~ResponseApduAccepts(buffer)
       THEN /\ rState' = "threw"
            /\ rError' = MalformedResponse
            /\ UNCHANGED rData
       ELSE /\ rState' = "parsed"
            /\ rData' = BufferToHex(buffer)
            /\ UNCHANGED rError
    /\ UNCHANGED <<rView, engineVars, commandVars, concurrentVars>>

\* The caller calls an accessor of the response and keeps what it returns.
Returns(member, value) ==
    /\ rState = "parsed"
    /\ rView' = [member |-> member, value |-> Given(value)]
    /\ UNCHANGED <<rState, rBuffer, rData, rError, engineVars, commandVars,
                   concurrentVars>>

CallGetStatusCode == Returns("getStatusCode", getStatusCode(rData))

CallIsOk == Returns("isOk", isOk(rData))

CallHasMoreBytesAvailable ==
    Returns("hasMoreBytesAvailable", hasMoreBytesAvailable(rData))

CallNumberOfBytesAvailable ==
    Returns("numberOfBytesAvailable", numberOfBytesAvailable(rData))

CallIsWrongLength == Returns("isWrongLength", isWrongLength(rData))

CallCorrectLength == Returns("correctLength", correctLength(rData))

CallGetStatus == Returns("getStatus", getStatus(rData))

ResponseNext ==
    \/ rState = "none" /\ \E buffer \in ResponseBuffers : NewResponseApdu(buffer)
    \/ CallGetStatusCode
    \/ CallIsOk
    \/ CallHasMoreBytesAvailable
    \/ CallNumberOfBytesAvailable
    \/ CallIsWrongLength
    \/ CallCorrectLength
    \/ CallGetStatus

ResponseSpec == Init /\ [][ResponseNext]_vars

(***************************************************************************)
(* A caller constructs one CommandApdu, calls its members and writes to    *)
(* the arrays it holds.                                                    *)
(***************************************************************************)
Headers ==
    { <<0, 164, 4, 0>>, <<0, 192, 0, 0>>, <<128, 202, 159, 54>>,
      <<255, 255, 255, 255>>, <<1, 2, 127, 128>> }
DataLengths == { 0, 1, 4, 100, 255, 256 }
\* Array.from({ length: n }, (_, i) => i % 256)
DataOfLength(n) == [i \in 1..n |-> (i - 1) % 256]
LeOptions == { Absent, Given(0), Given(16), Given(255) }
\* Option objects given to the CommandApdu constructor.
CommandOptions ==
    { [cla |-> h[1], ins |-> h[2], p1 |-> h[3], p2 |-> h[4],
       data |-> d, le |-> le] :
         h \in Headers,
         d \in { Absent } \cup { Given(DataOfLength(n)) : n \in DataLengths },
         le \in LeOptions }
\* Arguments of setLe.
LeArguments == { 16, 255 }
\* The value a caller writes, and the positions it writes to.
CallerValue == 255
WritePositions(array) == { 1, Len(array) }

\* new CommandApdu(options)
NewCommandApdu(options) ==
    /\ cState = "none"
    /\ cState' = "built"
    /\ cOptions' = options
    /\ cData' = options.data
    /\ cBytes' = createCommandApdu(options)
    /\ cBuilt' = toBuffer(createCommandApdu(options))
    /\ cOp' = "new"
    /\ UNCHANGED <<cLastLe, cHeld, cHeldFrom, cHeldShared, cTampered>>
    /\ UNCHANGED <<engineVars, responseVars, concurrentVars>>

\* command.setLe(le); an array that is _bytes itself changes with it.
CallSetLe(le) ==
    /\ cState = "built"
    /\ cBytes' = setLe(cBytes, le)
    /\ cLastLe' = Given(le)
    /\ cOp' = "setLe"
    /\ cHeld' = IF cHeldShared THEN setLe(cBytes, le) ELSE cHeld
    /\ UNCHANGED <<cState, cOptions, cData, cBuilt, cHeldFrom, cHeldShared,
                   cTampered>>
    /\ UNCHANGED <<engineVars, responseVars, concurrentVars>>

\* The caller calls a member and keeps what it returns.
Obtains(member, returned) ==
    /\ cState = "built"
    /\ cHeld' = returned.value
    /\ cHeldFrom' = member
    /\ cHeldShared' = returned.shared
    /\ cOp' = member
    /\ UNCHANGED <<cState, cOptions, cData, cBytes, cBuilt, cLastLe, cTampered>>
    /\ UNCHANGED <<engineVars, responseVars, concurrentVars>>

GetBytes == Obtains("bytes", bytesGetter(cBytes))

CallToByteArray == Obtains("toByteArray", toByteArray(cBytes))

CallToBuffer == Obtains("toBuffer", toBufferResult(cBytes))

CallToString == Obtains("toString", commandToString(cBytes))

\* held[i - 1] = v on the array or buffer the caller holds.
CallerWrites(i, v) ==
    /\ cState = "built"
    /\ cHeldFrom \in {"bytes", "toByteArray", "toBuffer"}
    /\ i \in WritePositions(cHeld)
    /\ cHeld' = [cHeld EXCEPT ![i] = v]
    /\ cBytes' = IF cHeldShared THEN [cHeld EXCEPT ![i] = v] ELSE cBytes
    /\ cTampered' = (cTampered \/ cHeldShared)
    /\ cOp' = "write"
    /\ UNCHANGED <<cState, cOptions, cData, cBuilt, cLastLe, cHeldFrom,
                   cHeldShared>>
    /\ UNCHANGED <<engineVars, responseVars, concurrentVars>>

\* data[0] = v on the array passed as options.data: the constructor's
\* concat copied its elements into a new array.
CallerChangesData(v) ==
    /\ cState = "built"
    /\ cData # Absent
    /\ ValueOf(cData) # <<>>
    /\ cData' = Given([ValueOf(cData) EXCEPT ![1] = v])
    /\ cOp' = "changeData"
    /\ UNCHANGED <<cState, cOptions, cBytes, cBuilt, cLastLe, cHeld, cHeldFrom,
                   cHeldShared, cTampered>>
    /\ UNCHANGED <<engineVars, responseVars, concurrentVars>>

CommandNext ==
    \/ cState = "none" /\ \E options \in CommandOptions : NewCommandApdu(options)
    \/ \E le \in LeArguments : CallSetLe(le)
    \/ GetBytes
    \/ CallToByteArray
    \/ CallToBuffer
    \/ CallToString
    \/ \E i \in WritePositions(cHeld) : CallerWrites(i, CallerValue)
    \/ CallerChangesData(CallerValue)

CommandSpec == Init /\ [][CommandNext]_vars

(***************************************************************************)
(* Two logical operations run concurrently, on one engine or on two        *)
(* engines with a card each.  Every call of issueCommand has its own       *)
(* closure (commandApdu, retries, maxRetries); a CommandApdu is an object  *)
(* on the heap, and setLe changes the object it is called on.              *)
(***************************************************************************)
\* The calls the two callers make.
ConcurrentCalls ==
    { Call("selectFile", <<(<<160, 0, 0>>), Absent, Absent>>),
      Call("getResponse", <<16>>),
      Call("readRecord", <<2, 1>>),
      Call("getData", <<159, 54>>),
      Call("issueCommand", <<[cla |-> 128, ins |-> 202, p1 |-> 1, p2 |-> 2,
                              data |-> Given(<<7, 9>>), le |-> Given(5)],
                             Given(1)>>) }
\* The engine of the first operation is engine 1; the second operation
\* runs on the same engine or on engine 2, which has its own card.
EnginesFor(i) == 1..i
ConcurrentReplies == { <<144, 0>>, <<108, 16>>, <<108, 32>>, <<7, 97, 32>> }

\* The _bytes of the command the called method works on.
CommandOfCall(call) ==
    CASE call.name = "selectFile" ->
             selectFileCommand(call.args[1], call.args[2], call.args[3])
      [] call.name = "getResponse" -> getResponseCommand(call.args[1])
      [] call.name = "readRecord" -> readRecordCommand(call.args[1], call.args[2])
      [] call.name = "getData" -> getDataCommand(call.args[1], call.args[2])
      [] call.name = "issueCommand" -> createCommandApdu(call.args[1])
\* The maxRetries argument issueCommand gets.
MaxRetriesOfCall(call) ==
    IF call.name = "issueCommand" THEN call.args[2] ELSE Absent

NewInstanceCached(i, n) == <<1, 1>>

\* createCommandApdu returns `new CommandApdu(options)`: the n-th command
\* built for operation i is an object of its own.
NewInstance(i, n) == <<i, n>>

RetriesOfShared(i) == 1

\* `let retries = 0` is local to the call of issueCommand.
RetriesOf(i) == i

\* issueCommand(commandApdu, maxRetries) of operation i, on the instance
\* id with bytes cmdBytes, up to its first await.
OpIssueCommand(i, op, id, cmdBytes, arg) ==
    /\ heap' = [heap EXCEPT ![id] = cmdBytes]
    /\ retryCount' = [retryCount EXCEPT ![RetriesOf(i)] = 0]
    /\ ops' = [ops EXCEPT ![i] =
                 [op EXCEPT !.pc = "Sending",
                            !.cmd = id,
                            !.built = op.built + 1,
                            !.maxRetries = EffectiveMaxRetries(arg),
                            !.sent = Append(op.sent, toBuffer(cmdBytes))]]

\* A caller calls a method of engine e for operation i.
OpStart(i, e, call) ==
    /\ ops[i].pc = "Idle"
    /\ OpIssueCommand(i, [ops[i] EXCEPT !.call = call, !.engine = e],
                      NewInstance(i, 1), CommandOfCall(call),
                      MaxRetriesOfCall(call))
    /\ UNCHANGED <<engineVars, commandVars, responseVars>>

OpSettles(i, op, state, buffer, e) ==
    /\ ops' = [ops EXCEPT ![i] =
                 [op EXCEPT !.pc = state, !.result = buffer, !.error = e]]
    /\ UNCHANGED <<heap, retryCount>>

\* execute() of operation i after `await transmit` resolved with resp.
OpTransmitResolved(i, resp) ==
    /\ ops[i].pc = "Sending"
    /\ Len(ops[i].sent) < MaxOpCalls \/ OutcomeKind(Resolved(resp)) = "TERM"
    /\ LET op == [ops[i] EXCEPT !.replies = Append(ops[i].replies, resp)]
           data == BufferToHex(resp)
       IN  IF ~ResponseApduAccepts(resp)
           THEN OpSettles(i, op, "Failed", <<>>, MalformedResponse)
           ELSE IF hasMoreBytesAvailable(data)
           THEN OpIssueCommand(i, op, NewInstance(i, op.built + 1),
                               getResponseCommand(numberOfBytesAvailable(data)),
                               Absent)
           ELSE IF isWrongLength(data)
           THEN IF RetriesExhausted(retryCount[RetriesOf(i)], op.maxRetries)
                THEN OpSettles(i, op, "Failed", <<>>, MaxRetriesExceeded)
                ELSE LET corrected == setLe(heap[op.cmd], correctLength(data))
                     IN  /\ retryCount' =
                                [retryCount EXCEPT ![RetriesOf(i)] = @ + 1]
                         /\ heap' = [heap EXCEPT ![op.cmd] = corrected]
                         /\ ops' = [ops EXCEPT ![i] =
                                [op EXCEPT !.sent =
                                    Append(op.sent, toBuffer(corrected))]]
           ELSE OpSettles(i, op, "Done", resp, NoError)
    /\ UNCHANGED <<engineVars, commandVars, responseVars>>

\* execute() of operation i after `await transmit` rejected with e.
OpTransmitRejected(i, e) ==
    /\ ops[i].pc = "Sending"
    /\ OpSettles(i, ops[i], "Failed", <<>>, e)
    /\ UNCHANGED <<engineVars, commandVars, responseVars>>

ConcurrentNext ==
    \/ \E i \in OpIds : ops[i].pc = "Idle" /\
          \E e \in EnginesFor(i), call \in ConcurrentCalls : OpStart(i, e, call)
    \/ \E i \in OpIds, resp \in ConcurrentReplies : OpTransmitResolved(i, resp)
    \/ \E i \in OpIds : OpTransmitRejected(i, "EIO")

ConcurrentSpec == Init /\ [][ConcurrentNext]_vars

(***************************************************************************)
(* The same operation running alone: issueCommand as a function of the     *)
(* call and of the replies the card gives, in order.                       *)
(***************************************************************************)
AloneIssueCommand(run, cmdBytes, arg) ==
    [run EXCEPT !.pc = "Sending",
                !.bytes = cmdBytes,
                !.retries = 0,
                !.maxRetries = EffectiveMaxRetries(arg),
                !.sent = Append(run.sent, toBuffer(cmdBytes))]

AloneStart(call) ==
    AloneIssueCommand([pc |-> "Idle", bytes |-> <<>>, retries |-> 0,
                       maxRetries |-> DefaultMaxRetries, sent |-> <<>>,
                       result |-> <<>>, error |-> NoError],
                      CommandOfCall(call), MaxRetriesOfCall(call))

AloneTransmitResolved(run, resp) ==
    LET data == BufferToHex(resp)
    IN  IF run.pc # "Sending" THEN run
        ELSE IF ~ResponseApduAccepts(resp)
        THEN [run EXCEPT !.pc = "Failed", !.error = MalformedResponse]
        ELSE IF hasMoreBytesAvailable(data)
        THEN AloneIssueCommand(run,
                 getResponseCommand(numberOfBytesAvailable(data)), Absent)
        ELSE IF isWrongLength(data)
        THEN IF RetriesExhausted(run.retries, run.maxRetries)
             THEN [run EXCEPT !.pc = "Failed", !.error = MaxRetriesExceeded]
             ELSE LET corrected == setLe(run.bytes, correctLength(data))
                  IN  [run EXCEPT !.retries = run.retries + 1,
                                  !.bytes = corrected,
                                  !.sent = Append(run.sent, toBuffer(corrected))]
        ELSE [run EXCEPT !.pc = "Done", !.result = resp]

RECURSIVE RunAlone(_, _)
RunAlone(call, replies) ==
    IF replies = <<>> THEN AloneStart(call)
    ELSE LET before == RunAlone(call, SubSeq(replies, 1, Len(replies) - 1))
         IN  AloneTransmitResolved(before, replies[Len(replies)])

(***************************************************************************)
(* Vocabulary of the properties.                                           *)
(***************************************************************************)
\* The history variables are exact: no counter has saturated.
Observed == calls < MaxCalls
Terminal == pc \in {"Done", "Failed"}
Replied == Len(log) > 0
LastKind == log[Len(log)]
LastSW2 == lastOutcome.bytes[Len(lastOutcome.bytes)]
AllOfKind(seq, kind) == \A i \in 1..Len(seq) : seq[i] = kind
Front(seq) == SubSeq(seq, 1, Len(seq) - 1)
\* Number of consecutive wrong-length replies at the end of the log: the
\* 6Cxx replies the command now held has received.
RECURSIVE TrailingWrongLength(_)
TrailingWrongLength(seq) ==
    IF seq = <<>> \/ seq[Len(seq)] # "WL" THEN 0
    ELSE 1 + TrailingWrongLength(Front(seq))
\* The retry bound of the command now held: the caller's maxRetries for
\* the caller's command, the default for a GET RESPONSE the engine built.
BoundOfCurrentCommand ==
    IF \E i \in 1..Len(log) : log[i] = "CONT" THEN DefaultMaxRetries
    ELSE opMaxRetries

(***************************************************************************)
(* C1.  A transport that answers every command with 6Cxx makes the         *)
(* operation fail with the max-retries-exceeded error after maxRetries+1   *)
(* transport calls: never more calls, never another outcome.               *)
(***************************************************************************)
C1_AlwaysWrongLengthFailsBounded ==
    (Observed /\ AllOfKind(log, "WL")) =>
        /\ calls <= opMaxRetries + 1
        /\ Len(log) <= opMaxRetries + 1
        /\ pc # "Done"
        /\ (Len(log) = opMaxRetries + 1) =>
               (pc = "Failed" /\ error = MaxRetriesExceeded
                /\ calls = opMaxRetries + 1)
        /\ pc = "Failed" => Len(log) = opMaxRetries + 1

C1_Witness ==
    /\ Observed /\ AllOfKind(log, "WL")
    /\ opMaxRetries = DefaultMaxRetries
    /\ calls = opMaxRetries + 1
    /\ pc = "Failed" /\ error = MaxRetriesExceeded

(***************************************************************************)
(* C2.  Every operation eventually reaches Done or Failed, whatever the    *)
(* transport replies (checked under FairSpec: every transmit is answered). *)
(***************************************************************************)
C2_OperationTerminates == <>Terminal

(***************************************************************************)
(* C3.  After a 61xx reply the engine transmits GET RESPONSE               *)
(* [00 C0 00 00 SW2] taken from a new CommandApdu, the caller's command is *)
(* never transmitted again, and 61xx followed by 01 02 03 04 90 00 ends    *)
(* after exactly two calls with that response.                             *)
(***************************************************************************)
C3_ContinuationSendsGetResponse ==
    Observed =>
        /\ (Replied /\ LastKind = "CONT") =>
               /\ pc = "Sending"
               /\ sent = <<0, 192, 0, 0, LastSW2>>
               /\ sentId # prevSentId
               /\ calls = Len(log) + 1
        /\ ((\E i \in 1..Len(log) : log[i] = "CONT") /\ pc = "Sending") =>
               sentId # 1
        /\ (log = <<"CONT", "TERM">>
            /\ lastOutcome = Resolved(<<1, 2, 3, 4, 144, 0>>)) =>
               (calls = 2 /\ pc = "Done" /\ result = <<1, 2, 3, 4, 144, 0>>)

C3_Witness ==
    /\ log = <<"CONT", "TERM">>
    /\ lastOutcome = Resolved(<<1, 2, 3, 4, 144, 0>>)
    /\ prevSent = <<0, 192, 0, 0, 16>>
    /\ calls = 2 /\ pc = "Done"

(***************************************************************************)
(* C4.  After a 6Cxx reply received before the retry bound is reached the  *)
(* engine calls setLe on the command it holds and transmits the bytes it   *)
(* transmitted before with only the final byte replaced by SW2.            *)
(***************************************************************************)
C4_WrongLengthResendsWithCorrectedLe ==
    Observed =>
        /\ (Replied /\ LastKind = "WL" /\ TrailingWrongLength(log) <= maxRetries)
               => pc = "Sending"
        /\ (Replied /\ LastKind = "WL" /\ pc = "Sending") =>
               /\ sentId = prevSentId
               /\ Len(sent) = Len(prevSent)
               /\ \A i \in 1..(Len(sent) - 1) : sent[i] = prevSent[i]
               /\ sent[Len(sent)] = LastSW2
               /\ bytes = sent
               /\ setLeCalls >= TrailingWrongLength(log)

C4_Witness ==
    /\ Observed /\ Replied /\ LastKind = "WL" /\ pc = "Sending"
    /\ Len(sent) > 6
    /\ sent[Len(sent)] = 32
    /\ prevSent[Len(prevSent)] = 16

(***************************************************************************)
(* C5.  k replies 6Cxx, k <= maxRetries, followed by a terminal status:    *)
(* exactly k+1 transport calls, exactly k setLe calls, and the operation   *)
(* returns the terminal response.                                          *)
(***************************************************************************)
C5_CorrectedWithinBoundSucceeds ==
    Observed =>
        /\ (AllOfKind(log, "WL") /\ Replied /\ Len(log) <= opMaxRetries) =>
               (pc = "Sending" /\ setLeCalls = Len(log)
                /\ calls = Len(log) + 1)
        /\ (Replied /\ LastKind = "TERM" /\ AllOfKind(Front(log), "WL")
            /\ Len(log) - 1 <= opMaxRetries) =>
               /\ pc = "Done"
               /\ error = NoError
               /\ result = lastOutcome.bytes
               /\ calls = Len(log)
               /\ setLeCalls = Len(log) - 1

C5_Witness ==
    /\ Observed /\ Replied /\ LastKind = "TERM"
    /\ AllOfKind(Front(log), "WL")
    /\ opMaxRetries >= 2
    /\ Len(log) - 1 = opMaxRetries
    /\ pc = "Done" /\ setLeCalls = opMaxRetries

(***************************************************************************)
(* C6.  Over the whole operation, GET RESPONSE sub-exchanges included, the *)
(* number of wrong-length retries never exceeds the caller's maxRetries.   *)
(***************************************************************************)
C6_RetriesWithinConfiguredBound == Observed => setLeCalls <= opMaxRetries

(***************************************************************************)
(* C7.  A reply of 2 or more bytes whose SW1 is neither 61 nor 6C ends the *)
(* operation in Done with that reply as the result, whatever its status    *)
(* word; such a first reply means exactly one transport call.              *)
(***************************************************************************)
C7_TerminalStatusIsReturned ==
    (Observed /\ Replied /\ LastKind = "TERM") =>
        /\ pc = "Done"
        /\ error = NoError
        /\ result = lastOutcome.bytes
        /\ calls = Len(log)
        /\ Len(log) = 1 => calls = 1

C7_Witness ==
    /\ log = <<"TERM">>
    /\ lastOutcome = Resolved(<<106, 130>>)
    /\ pc = "Done" /\ result = <<106, 130>> /\ calls = 1

(***************************************************************************)
(* C8.  When a transmit call fails the operation fails with the            *)
(* transport's error and no further transport call is made.                *)
(***************************************************************************)
C8_TransportFailurePropagates ==
    Observed =>
        \A i \in 1..Len(log) :
            log[i] = "REJECT" =>
                /\ i = Len(log)
                /\ pc = "Failed"
                /\ error = lastOutcome.err
                /\ error \in TransportErrors
                /\ calls = Len(log)

C8_Witness ==
    /\ Observed /\ Replied /\ LastKind = "REJECT"
    /\ \E i \in 1..Len(log) : log[i] = "CONT"
    /\ \E i \in 1..Len(log) : log[i] = "WL"
    /\ pc = "Failed" /\ error = "ETIMEDOUT"

(***************************************************************************)
(* C9.  A reply of fewer than 2 bytes fails the operation at once with the *)
(* malformed-response error: it is never handled as 61xx or 6Cxx and no    *)
(* further transport call is made.                                         *)
(***************************************************************************)
C9_ShortReplyFailsImmediately ==
    Observed =>
        \A i \in 1..Len(log) :
            log[i] = "SHORT" =>
                /\ i = Len(log)
                /\ pc = "Failed"
                /\ error = MalformedResponse
                /\ calls = Len(log)

C9_Witness ==
    /\ Observed /\ Replied /\ LastKind = "SHORT"
    /\ lastOutcome = Resolved(<<97>>)
    /\ Len(log) >= 2
    /\ pc = "Failed" /\ error = MalformedResponse

SW1OfBuffer == rBuffer[Len(rBuffer) - 1]
SW2OfBuffer == rBuffer[Len(rBuffer)]
Returned(member) == rState = "parsed" /\ rView.member = member
ReturnedValue == ValueOf(rView.value)
LowerHexDigit(n) ==
    CASE n = 0 -> "0" [] n = 1 -> "1" [] n = 2 -> "2" [] n = 3 -> "3"
      [] n = 4 -> "4" [] n = 5 -> "5" [] n = 6 -> "6" [] n = 7 -> "7"
      [] n = 8 -> "8" [] n = 9 -> "9" [] n = 10 -> "a" [] n = 11 -> "b"
      [] n = 12 -> "c" [] n = 13 -> "d" [] n = 14 -> "e" [] n = 15 -> "f"
LowerHexOfByte(b) == <<LowerHexDigit(b \div 16), LowerHexDigit(b % 16)>>

(***************************************************************************)
(* C11.  Constructing a ResponseApdu throws the malformed-response error   *)
(* exactly when the buffer has fewer than 2 bytes.                         *)
(***************************************************************************)
C11_ConstructorThrowsIffShort ==
    rState # "none" =>
        /\ rState = "threw" <=> Len(rBuffer) < 2
        /\ rState = "threw" => rError = MalformedResponse
        /\ rState = "parsed" => rError = NoError

C11_Witness ==
    /\ rState = "threw" /\ Len(rBuffer) = 1 /\ rError = MalformedResponse

(***************************************************************************)
(* C18.  getStatusCode is the lowercase hex of the last two bytes of the   *)
(* response, whatever precedes them, and isOk is true exactly when they    *)
(* are 90 00.                                                              *)
(***************************************************************************)
C18_StatusCodeIsHexOfLastTwoBytes ==
    /\ Returned("getStatusCode") =>
           ReturnedValue = LowerHexOfByte(SW1OfBuffer) \o LowerHexOfByte(SW2OfBuffer)
    /\ Returned("isOk") =>
           (ReturnedValue <=> (SW1OfBuffer = 144 /\ SW2OfBuffer = 0))

C18_Witness ==
    /\ Returned("getStatusCode")
    /\ rBuffer = <<108, 144, 0, 106, 130>>
    /\ ReturnedValue = <<"6", "a", "8", "2">>

(***************************************************************************)
(* C19.  hasMoreBytesAvailable is true exactly when SW1 is 61, and         *)
(* numberOfBytesAvailable is the value of SW2, an integer in 0..255.       *)
(***************************************************************************)
C19_ContinuationIsSW1Equal61 ==
    /\ Returned("hasMoreBytesAvailable") =>
           (ReturnedValue <=> SW1OfBuffer = 97)
    /\ Returned("numberOfBytesAvailable") =>
           (ReturnedValue = SW2OfBuffer /\ ReturnedValue \in 0..255)

C19_Witness ==
    /\ Returned("numberOfBytesAvailable")
    /\ rBuffer = <<108, 144, 0, 97, 255>>
    /\ ReturnedValue = 255

(***************************************************************************)
(* C20.  isWrongLength is true exactly when SW1 is 6C, and correctLength   *)
(* is the value of SW2, an integer in 0..255.                              *)
(***************************************************************************)
C20_WrongLengthIsSW1Equal6C ==
    /\ Returned("isWrongLength") =>
           (ReturnedValue <=> SW1OfBuffer = 108)
    /\ Returned("correctLength") =>
           (ReturnedValue = SW2OfBuffer /\ ReturnedValue \in 0..255)

C20_Witness ==
    /\ Returned("isWrongLength")
    /\ rBuffer = <<97, 108, 32>>
    /\ ReturnedValue = TRUE

(***************************************************************************)
(* Properties of CommandApdu, checked under CommandSpec.                   *)
(***************************************************************************)
Built == cState = "built"
OptionHeader == <<cOptions.cla, cOptions.ins, cOptions.p1, cOptions.p2>>
OptionLe == IF cOptions.le = Absent THEN 0 ELSE ValueOf(cOptions.le)
OptionData == ValueOf(cOptions.data)
Last(seq) == seq[Len(seq)]

\* C12: a command constructed without data encodes to exactly the five
\* bytes cla, ins, p1, p2, le, where le is the given le or 0.
C12_NoDataEncodesFiveBytes ==
    (Built /\ cOptions.data = Absent)
        => cBuilt = OptionHeader \o <<OptionLe>>

C12_Witness ==
    /\ Built
    /\ cOptions.data = Absent
    /\ cOptions.le = Absent
    /\ cBuilt = <<128, 202, 159, 54, 0>>

\* C13: a command constructed with data of length L <= 255 encodes to
\* cla, ins, p1, p2, L, the L data bytes in order, le: L + 6 bytes.
C13_DataEncodesLcDataLe ==
    (Built /\ cOptions.data # Absent /\ Len(OptionData) <= 255)
        => /\ Len(cBuilt) = Len(OptionData) + 6
           /\ SubSeq(cBuilt, 1, 4) = OptionHeader
           /\ cBuilt[5] = Len(OptionData)
           /\ \A i \in 1..Len(OptionData) : cBuilt[5 + i] = OptionData[i]
           /\ Last(cBuilt) = OptionLe

C13_Witness ==
    /\ Built
    /\ cOptions.data = Given(<<>>)
    /\ cOptions.le = Given(16)
    /\ cBuilt = <<0, 164, 4, 0, 0, 16>>

\* C14: setLe keeps the length of the encoding and every byte but the last,
\* and the last byte is the value of the latest setLe (no caller has
\* written into the command's array).
C14_SetLeReplacesOnlyLastByte ==
    (Built /\ ~cTampered)
        => /\ Len(toBuffer(cBytes)) = Len(cBuilt)
           /\ \A i \in 1..(Len(cBuilt) - 1) : toBuffer(cBytes)[i] = cBuilt[i]
           /\ Last(toBuffer(cBytes))
                = IF cLastLe = Absent THEN Last(cBuilt) ELSE ValueOf(cLastLe)

C14_Witness ==
    /\ Built
    /\ ~cTampered
    /\ cOp = "setLe"
    /\ cLastLe = Given(255)
    /\ cOptions.data # Absent
    /\ Last(cBuilt) = 16
    /\ Last(toBuffer(cBytes)) = 255

\* C15: no command exists whose data is longer than 255 bytes, and the Lc
\* byte of every command with data is the length of its data.
C15_DataLongerThan255Rejected ==
    (Built /\ cOptions.data # Absent)
        => /\ Len(OptionData) <= 255
           /\ cBuilt[5] = Len(OptionData)

\* C16: once constructed, the encoding of a command changes only by setLe.
C16_EncodingChangesOnlyBySetLe ==
    [][(Built /\ toBuffer(cBytes') # toBuffer(cBytes)) => cOp' = "setLe"]_vars

\* C17: the array the bytes getter returns is a copy of the encoding: it
\* equals the encoding when returned, and a write to it leaves the encoding
\* as it was.
C17_BytesGetterReturnsCopy ==
    /\ [][(cOp' = "bytes") => (cHeld' = cBytes /\ cBytes' = cBytes)]_vars
    /\ [][(cOp' = "write" /\ cHeldFrom = "bytes") => cBytes' = cBytes]_vars

C17_Witness ==
    /\ Built
    /\ cOp = "write"
    /\ cHeldFrom = "bytes"
    /\ cHeld # cBytes
    /\ ~cTampered
    /\ toBuffer(cBytes) = cBuilt

(***************************************************************************)
(* Properties of getStatus, checked under ResponseSpec.                    *)
(***************************************************************************)
StatusWordOfBuffer == LowerHexOfByte(SW1OfBuffer) \o LowerHexOfByte(SW2OfBuffer)
MatchingEntries(code) ==
    { i \in 1..Len(statusCodes) : PatternTest(statusCodes[i].pattern, code) }
FirstMatching(code) ==
    CHOOSE i \in MatchingEntries(code) : \A j \in MatchingEntries(code) : i <= j

\* C21: getStatus returns the status word as code and the meaning of the
\* first table entry, in declared order, that matches it; an exact entry
\* (6a82, 6300, 9000, ...) gives its own meaning and never that of the
\* wildcard family; the meaning is 'Unknown' exactly when no entry matches.
C21_FirstMatchingEntryWins ==
    Returned("getStatus") =>
        LET code == ReturnedValue.code
            meaning == ReturnedValue.meaning
        IN  /\ code = StatusWordOfBuffer
            /\ MatchingEntries(code) # {}
                  => meaning = statusCodes[FirstMatching(code)].meaning
            /\ \A i \in 1..Len(SpecificStatusCodes) :
                  SpecificStatusCodes[i].pattern = code
                      => meaning = SpecificStatusCodes[i].meaning
            /\ code = <<"6", "a", "8", "2">> => meaning = "File not found"
            /\ code = <<"6", "3", "0", "0">> => meaning = "Authentication failed"
            /\ code = <<"9", "0", "0", "0">> => meaning = "Normal processing"
            /\ (meaning = "Unknown") <=> (MatchingEntries(code) = {})

C21_Witness ==
    /\ Returned("getStatus")
    /\ rBuffer = <<106, 130>>
    /\ ReturnedValue = [code |-> <<"6", "a", "8", "2">>, meaning |-> "File not found"]

\* C22: every status word with SW1 in 0x62..0x6f, whatever SW2 is, and
\* 9000 and every 61xx status word, gets a meaning other than 'Unknown'.
C22_ErrorFamiliesAreClassified ==
    (/\ Returned("getStatus")
     /\ \/ SW1OfBuffer \in 97..111
        \/ (SW1OfBuffer = 144 /\ SW2OfBuffer = 0))
        => ReturnedValue.meaning # "Unknown"

(***************************************************************************)
(* Properties of the requests the high-level operations transmit, checked  *)
(* under RequestSpec.                                                      *)
(***************************************************************************)
Called(name) == opCall.name = name
\* The buffer in `sent` is the one the first transmit of the operation got.
FirstTransmit == calls = 1
ArgumentOr(arg, default) == IF arg = Absent THEN default ELSE ValueOf(arg)

\* C23: for sfi in 0..31 and record in 0..255 the first transmit of
\* readRecord(sfi, record) gets exactly 00 b2 record (sfi<<3)+4 00; P2 is a
\* byte and determines sfi.
C23_ReadRecordRequest ==
    (Called("readRecord") /\ FirstTransmit) =>
        LET sfi == opCall.args[1]
            record == opCall.args[2]
        IN  /\ sent = <<0, 178, record, (sfi * 8) + 4, 0>>
            /\ sent[4] \in 0..255
            /\ (sent[4] - 4) % 8 = 0
            /\ (sent[4] - 4) \div 8 = sfi

C23_Witness ==
    /\ opCall = Call("readRecord", <<31, 255>>)
    /\ FirstTransmit
    /\ sent = <<0, 178, 255, 252, 0>>

\* C24: the first transmit of selectFile(bytes, p1, p2) gets exactly
\* 00 a4 p1 p2 length(bytes), then bytes, then 00; p1 is 04 and p2 is 00
\* only when the argument is omitted, and a given value, 00 included, is
\* sent as it is.
C24_SelectFileRequest ==
    (Called("selectFile") /\ FirstTransmit) =>
        LET fileId == opCall.args[1]
            p1 == ArgumentOr(opCall.args[2], 4)
            p2 == ArgumentOr(opCall.args[3], 0)
        IN  sent = <<0, 164, p1, p2, Len(fileId)>> \o fileId \o <<0>>

C24_Witness ==
    /\ opCall = Call("selectFile", <<(<<160, 0, 0>>), Given(0), Given(12)>>)
    /\ FirstTransmit
    /\ sent = <<0, 164, 0, 12, 3, 160, 0, 0, 0>>

(***************************************************************************)
(* Properties of one logical operation, checked under Spec.                *)
(***************************************************************************)
\* A step in which the continuation of `await transmit` runs on a reply
\* the ResponseApdu constructor accepts, within the recorded history.
HandlesReply ==
    /\ pc = "Sending"
    /\ Len(log') = Len(log) + 1
    /\ lastOutcome'.ok
    /\ Len(lastOutcome'.bytes) >= 2
    /\ calls' < MaxCalls
ContinuationBranch ==
    /\ pc' = "Sending"
    /\ sentId' # sentId
    /\ calls' = calls + 1
    /\ setLeCalls' = setLeCalls
WrongLengthBranch ==
    \/ /\ pc' = "Sending"
       /\ sentId' = sentId
       /\ calls' = calls + 1
       /\ setLeCalls' = setLeCalls + 1
    \/ /\ pc' = "Failed"
       /\ error' = MaxRetriesExceeded
       /\ calls' = calls
       /\ setLeCalls' = setLeCalls
ReturnBranch ==
    /\ pc' = "Done"
    /\ calls' = calls
    /\ setLeCalls' = setLeCalls
\* No GET RESPONSE has been built: the engine still holds the caller's command.
NoContinuationIn(seq) == \A i \in 1..Len(seq) : seq[i] # "CONT"

\* C25: an operation has at most one transmit outstanding: a transmit is
\* issued only when every earlier one has been answered, and the reply is
\* handled by exactly one of the branches continuation, wrong length and
\* return.
C25_OneTransmitOutstanding ==
    /\ [](Observed => /\ calls - Len(log) \in {0, 1}
                       /\ (pc = "Sending") <=> (calls = Len(log) + 1))
    /\ [][calls' # calls => (calls = Len(log') /\ pc' = "Sending")]_vars
    /\ [][HandlesReply =>
            /\ OutcomeKind(lastOutcome') = "CONT" =>
                   (ContinuationBranch /\ ~WrongLengthBranch /\ ~ReturnBranch)
            /\ OutcomeKind(lastOutcome') = "WL" =>
                   (WrongLengthBranch /\ ~ContinuationBranch /\ ~ReturnBranch)
            /\ OutcomeKind(lastOutcome') = "TERM" =>
                   (ReturnBranch /\ ~ContinuationBranch /\ ~WrongLengthBranch)]_vars

C25_Witness ==
    /\ Observed
    /\ log = <<"CONT", "WL">>
    /\ calls = 3
    /\ pc = "Sending"
    /\ sentId = 2 /\ prevSentId = 2

\* C26: once the operation is Done or Failed there is no further transmit
\* and no further setLe, and the outcome stays as it is.
C26_TerminalStatesAreFinal ==
    [][Terminal => /\ pc' = pc
                   /\ calls' = calls
                   /\ sent' = sent
                   /\ setLeCalls' = setLeCalls
                   /\ ownBytes' = ownBytes
                   /\ result' = result
                   /\ error' = error]_vars

C26_Witness ==
    /\ pc = "Done"
    /\ log = <<"WL", "TERM">>
    /\ calls = 2
    /\ setLeCalls = 1
    /\ result = <<144, 0>>

\* C28: the response the operation returns holds exactly the bytes of the
\* last reply: nothing of the earlier replies of the operation is in it.
C28_ResultIsLastReplyOnly ==
    pc = "Done" =>
        /\ lastOutcome.ok
        /\ Len(result) = Len(lastOutcome.bytes)
        /\ \A i \in 1..Len(result) : result[i] = lastOutcome.bytes[i]

C28_Witness ==
    /\ pc = "Done"
    /\ log = <<"CONT", "TERM">>
    /\ sent = <<0, 192, 0, 0, 0>>
    /\ lastOutcome = Resolved(<<144, 0>>)
    /\ result = <<144, 0>>

\* C29: when the operation has ended, the caller's command differs from
\* what it was at the call at most in its last byte, which is SW2 of the
\* last 6Cxx reply that made the engine re-send that command, or the
\* original one when there was no such reply.
C29_CallerCommandKeepsAllButLe ==
    /\ []((Terminal /\ ~Called("none")) =>
            /\ Len(ownBytes) = Len(ownBuilt)
            /\ \A i \in 1..(Len(ownBuilt) - 1) : ownBytes[i] = ownBuilt[i]
            /\ Last(ownBytes) = ArgumentOr(ownCorrection, Last(ownBuilt)))
    /\ [][(HandlesReply /\ OutcomeKind(lastOutcome') = "WL"
            /\ NoContinuationIn(log') /\ pc' = "Sending")
              => ownCorrection' = Given(LastSW2')]_vars
    /\ [][(~Called("none") /\ ownCorrection' # ownCorrection) =>
            /\ OutcomeKind(lastOutcome') = "WL"
            /\ Len(log') = Len(log) + 1
            /\ NoContinuationIn(log')
            /\ pc' = "Sending"]_vars

C29_Witness ==
    /\ pc = "Done"
    /\ log = <<"WL", "WL", "CONT", "WL", "TERM">>
    /\ ownBuilt = <<0, 164, 4, 0, 3, 160, 0, 0, 0>>
    /\ ownBytes = <<0, 164, 4, 0, 3, 160, 0, 0, 32>>
    /\ ownCorrection = Given(32)

(***************************************************************************)
(* Properties of concurrent operations, checked under ConcurrentSpec.      *)
(***************************************************************************)
OpStarted(i) == ops[i].pc # "Idle"
\* What operation i does when it runs alone on the replies it has received.
AloneRun(i) == RunAlone(ops[i].call, ops[i].replies)
OnDistinctEngines == ops[1].engine # ops[2].engine
OnOneEngine == OpStarted(1) /\ OpStarted(2) /\ ops[1].engine = ops[2].engine
\* The transport rejected the outstanding transmit of operation i.
TransportFailed(i) == ops[i].pc = "Failed" /\ ops[i].error = "EIO"

\* C27: of two operations on engines with a card each, in every
\* interleaving each transmits the commands, has the retry count and ends
\* with the outcome it has when it runs alone on the same replies.
C27_IndependentEnginesDoNotInterfere ==
    \A i \in OpIds :
        (OpStarted(i) /\ OnDistinctEngines) =>
            LET alone == AloneRun(i)
            IN  /\ ops[i].sent = alone.sent
                /\ retryCount[i] = alone.retries
                /\ IF TransportFailed(i)
                   THEN alone.pc = "Sending"
                   ELSE /\ ops[i].pc = alone.pc
                        /\ ops[i].result = alone.result
                        /\ ops[i].error = alone.error

C27_Witness ==
    /\ ops[1].engine = 1 /\ ops[2].engine = 2
    /\ ops[1].call = Call("readRecord", <<2, 1>>)
    /\ ops[1].replies = <<(<<108, 16>>), <<108, 32>>, <<144, 0>>>>
    /\ ops[1].pc = "Done"
    /\ retryCount[1] = 2
    /\ ops[2].call.name = "issueCommand"
    /\ ops[2].replies = <<(<<108, 16>>), <<108, 32>>>>
    /\ ops[2].pc = "Failed" /\ ops[2].error = MaxRetriesExceeded
    /\ retryCount[2] = 1

\* C30: every call of selectFile, getResponse, readRecord and getData works
\* on a CommandApdu of its own: two operations never hold the same
\* instance, a step of one leaves the command and the transmitted bytes of
\* the other as they were, and what an operation transmits is what it
\* transmits alone, also when both run on one engine.
C30_CommandsAreNotShared ==
    /\ []((OpStarted(1) /\ OpStarted(2)) => ops[1].cmd # ops[2].cmd)
    /\ [](\A i \in OpIds :
            OpStarted(i) =>
                LET alone == AloneRun(i)
                IN  /\ Len(ops[i].sent) = Len(alone.sent)
                    /\ \A k \in 1..Len(ops[i].sent) :
                           ops[i].sent[k] = alone.sent[k])
    /\ [][\A j \in OpIds :
            (OpStarted(j) /\ ops'[j].replies = ops[j].replies
             /\ ops'[j].pc = ops[j].pc) =>
                /\ ops'[j].cmd = ops[j].cmd
                /\ heap'[ops[j].cmd] = heap[ops[j].cmd]
                /\ ops'[j].sent = ops[j].sent]_vars

C30_Witness ==
    /\ OnOneEngine
    /\ ops[1].call = Call("readRecord", <<2, 1>>)
    /\ ops[2].call = Call("readRecord", <<2, 1>>)
    /\ ops[1].sent = <<(<<0, 178, 1, 20, 0>>), <<0, 178, 1, 20, 16>>>>
    /\ ops[2].sent = <<(<<0, 178, 1, 20, 0>>), <<0, 178, 1, 20, 32>>>>
    /\ ops[1].pc = "Done" /\ ops[2].pc = "Done"

====
